---- MODULE Spec2Model ----
(***************************************************************************)
(* The two velocity-command nodes of SOFAR_TIAGo:                          *)
(*   remote variant: py_obstacle_avoidance/robot_controller.py             *)
(*                   (Controller.collision_avoidance, a blocking loop that *)
(*                   asks the des_vel service for the velocities)          *)
(*   local variant:  tiago_nodes/controller.py                             *)
(*                   (Controller.publisher_cmd, a timer callback that      *)
(*                   evaluates three PID controllers itself)               *)
(* A process runs one of the two nodes; `variant` says which.              *)
(*                                                                         *)
(* Python floats are modelled as exact rationals [n, d] in lowest terms:   *)
(* 0.8 * v is the rational 4v/5, comparisons are exact.                    *)
(***************************************************************************)
EXTENDS Integers, Sequences, FiniteSets, TLC

\* ------------------------------------------------------------------ bounds
\* Most consecutive stale cycles (decays of one velocity) explored.
MaxStale == 5

\* ------------------------------------------------------- float arithmetic
RECURSIVE GCD(_, _)
GCD(a, b) == IF b = 0 THEN a ELSE GCD(b, a % b)

Abs(i) == IF i < 0 THEN -i ELSE i

\* The float n/d (d > 0), in lowest terms.
Rat(num, den) ==
  LET g == GCD(Abs(num), den)
  IN  [n |-> num \div g, d |-> den \div g]

RMul(a, b) == Rat(a.n * b.n, a.d * b.d)

\* a > b on floats
RGt(a, b) == a.n * b.d > b.n * a.d

Zero == Rat(0, 1)

\* ------------------------------------------------------ program constants
\* Mutant of max_distance: the initial reading is a small value.
max_distance_Low == Rat(1, 1)

\* self.max_distance = 5.0
max_distance == Rat(5, 1)

\* self.dist_thresh_wf = 1.1
dist_thresh_wf == Rat(11, 10)

\* the literal 0.8 of both decay branches
DecayFactor == Rat(8, 10)

\* msg.ranges[260:400]: first index of the slice, and the index it stops before
WindowLo == 260
WindowHi == 400

\* ------------------------------------------------------------------ inputs
\* A LaserScan sweep, stored sparsely: `len` ranges, all equal to `fill`
\* except at the indices of `marks` (index -> range, 0-based as in Python).
Sweep(len, fill, marks) == [len |-> len, fill |-> fill, marks |-> marks]

SweepFar   == Sweep(666, Rat(3, 1), {<<100, Rat(2, 10)>>})
SweepNear  == Sweep(666, Rat(3, 1), {<<300, Rat(5, 10)>>})
SweepEdge  == Sweep(666, Rat(5, 1), {<<399, Rat(11, 10)>>, <<400, Rat(2, 10)>>})
SweepShort == Sweep(200, Rat(3, 1), {})

Sweeps == {SweepFar, SweepNear, SweepEdge, SweepShort}

\* Target samples: centroid x, y (pixels) and depth z (metres).
Samples == { [x |-> 320, y |-> 240, z |-> 2], [x |-> 100, y |-> 50, z |-> 3] }

NoSample == [x |-> 0, y |-> 0, z |-> 0]

\* Velocities a velocity computation may answer (des_vel service response,
\* or the outputs of the simple_pid controllers, which depend on wall-clock
\* time and on their private derivative memory).
Velocities == { [linear_x |-> Rat(1, 1),  angular_z |-> Zero],
                [linear_x |-> Rat(6, 10), angular_z |-> Rat(3, 10)] }

\* Twist(): all components 0.0
ZeroTwist == [linear_x |-> Zero, angular_z |-> Zero]

\* ------------------------------------------------------------------- state
VARIABLES
  variant,        \* "remote" or "local": which node this process runs
  pc,             \* remote: where the control thread stands
  svc_up,         \* remote: whether the des_vel service is reachable
  data_received,  \* self.data_received (both nodes)
  pid_request,    \* remote: self.pid_request.centroid
  vel_x, vel_z,   \* remote: self.vel_x, self.vel_z
  front_dist,     \* remote: self.front_dist
  msg,            \* the Twist the loop publishes (msg / self.msg), as last written
  future,         \* remote: self.future, the last des_vel call
  x, y, depth,    \* local: self.x, self.y, self.depth
  tick,           \* local: parity of the number of timer callbacks run
  published,      \* commands published since the current iteration began
  prev_msg,       \* the command published before the last one
  observed,       \* value of data_received the last cycle read (-1: no cycle yet)
  arrived,        \* a target arrival handler ran since that read
  staleRun,       \* consecutive stale cycles completed since the last fresh one
  base,           \* the command emitted just before the current stale run
  runClear,       \* clearance was above the threshold at every emission since base's
  scan,           \* remote: the sweep scan_callback was last run on
  calls,          \* remote: des_vel requests sent since the current iteration began
  latest,         \* the sample the last target arrival handler was run on
  pid_in,         \* local: the x, y, depth the last fresh timer callback fed to the PIDs
  unread          \* target arrival handlers run since the flag was last cleared (2: two or more)

vars == << variant, pc, svc_up, data_received, pid_request, vel_x, vel_z,
           front_dist, msg, future, x, y, depth,
           tick, published, prev_msg, observed, arrived, staleRun, base,
           runClear, scan, calls, latest, pid_in, unread >>

traceVars == << scan, calls, latest, pid_in >>

remoteVars == << pc, svc_up, pid_request, vel_x, vel_z, front_dist, future >>

localVars == << x, y, depth, tick >>

histVars == << prev_msg, observed, arrived, staleRun, base, runClear, unread >>

\* no sweep handled yet
NoSweep == Sweep(0, Zero, {})

NoFuture == [status |-> "none", request |-> NoSample, result |-> ZeroTwist]

Init ==
  /\ variant \in {"remote", "local"}
  /\ pc = IF variant = "remote" THEN "wait_service" ELSE "spinning"
  /\ svc_up \in (IF variant = "remote" THEN BOOLEAN ELSE {FALSE})
  /\ data_received = 0
  /\ pid_request = NoSample
  /\ vel_x = Zero
  /\ vel_z = Zero
  /\ front_dist = max_distance
  /\ msg = ZeroTwist
  /\ future = NoFuture
  /\ x = 0
  /\ y = 0
  /\ depth = 0
  /\ tick = 0
  /\ published = 0
  /\ prev_msg = ZeroTwist
  /\ observed = -1
  /\ arrived = FALSE
  /\ staleRun = 0
  /\ base = ZeroTwist
  /\ runClear = TRUE
  /\ scan = NoSweep
  /\ calls = 0
  /\ latest = NoSample
  /\ pid_in = NoSample
  /\ unread = 0

\* ---------------------------------------------------------- pure functions
\* One past the last index of ranges[260:400] in a sweep of s.len ranges.
WindowEnd(s) == IF s.len < WindowHi THEN s.len ELSE WindowHi

\* Mutant of WindowValues: the slice takes index 400 too.
WindowValues_Inclusive(s) ==
  LET inside == { m \in s.marks : m[1] >= WindowLo /\ m[1] <= WindowEnd(s) }
      size   == IF WindowEnd(s) > WindowLo THEN WindowEnd(s) - WindowLo ELSE 0
  IN  { m[2] : m \in inside }
        \cup (IF size > 0 THEN {s.fill} ELSE {})

\* The values of msg.ranges[260:400].
WindowValues(s) ==
  LET inside == { m \in s.marks : m[1] >= WindowLo /\ m[1] < WindowEnd(s) }
      size   == IF WindowEnd(s) > WindowLo THEN WindowEnd(s) - WindowLo ELSE 0
  IN  { m[2] : m \in inside }
        \cup (IF size > Cardinality({ m[1] : m \in inside }) THEN {s.fill} ELSE {})

\* min(...) of a non-empty collection of floats
RMin(S) == CHOOSE v \in S : \A w \in S : ~RGt(v, w)

\* Mutant of Decay: the velocity is divided by 0.8.
Decay_Grows(v) == RMul(Rat(10, 8), v)

\* Mutant of Decay: the factor is left out.
Decay_Forgotten(v) == v

\* 0.8 * v
Decay(v) == RMul(DecayFactor, v)

\* Mutant of Arbitrate: the test is >=, so a clearance of exactly the
\* threshold lets the candidate through.
Arbitrate_AtThreshold(cx, cz, fd) ==
  IF ~RGt(dist_thresh_wf, fd)
    THEN [linear_x |-> cx,   angular_z |-> cz]
    ELSE [linear_x |-> Zero, angular_z |-> cz]

\* Mutant of Arbitrate: the clear branch does not assign msg.angular.z, which
\* keeps what the last cycle wrote.
Arbitrate_AngularNotSet(cx, cz, fd) ==
  IF RGt(fd, dist_thresh_wf)
    THEN [linear_x |-> cx,   angular_z |-> msg.angular_z]
    ELSE [linear_x |-> Zero, angular_z |-> cz]

\* Mutant of Arbitrate: the blocked branch stops the rotation too.
Arbitrate_FullStop(cx, cz, fd) ==
  IF RGt(fd, dist_thresh_wf)
    THEN [linear_x |-> cx,   angular_z |-> cz]
    ELSE [linear_x |-> Zero, angular_z |-> Zero]

\* The obstacle check of collision_avoidance: the Twist written from the
\* candidate (cx, cz) when the frontal distance is fd.
Arbitrate(cx, cz, fd) ==
  IF RGt(fd, dist_thresh_wf)
    THEN [linear_x |-> cx,   angular_z |-> cz]
    ELSE [linear_x |-> Zero, angular_z |-> cz]

\* ------------------------------------------------------------- environment
\* The des_vel service comes up or goes away while the constructor waits for
\* it.  The node never asks again: once the loop runs, what the service does
\* shows only in whether a call is answered (FutureDone).
ServiceChanges ==
  /\ variant = "remote"
  /\ pc = "wait_service"
  /\ svc_up' = ~svc_up
  /\ UNCHANGED << variant, pc, data_received, pid_request, vel_x, vel_z,
                  front_dist, msg, future, localVars, published, histVars,
                  traceVars >>

\* ---------------------------------------------- remote variant: the handlers
\* scan_callback(msg) run by the executor on the sweep s; min() of an empty
\* slice raises ValueError, which leaves spin_once / spin_until_future_complete
\* and collision_avoidance.
ScanCallback(next_pc, s) ==
  /\ scan' = s
  /\ LET values == WindowValues(s)
     IN  IF values = {}
           THEN pc' = "crashed" /\ front_dist' = front_dist
           ELSE pc' = next_pc /\ front_dist' = RMin(values)
  /\ UNCHANGED << data_received, pid_request, arrived, latest, unread >>

\* receive_point_callback(req, res) run by the executor on the centroid p.
ReceivePointCallback(next_pc, p) ==
  /\ pid_request' = p
  /\ data_received' = 1
  /\ arrived' = TRUE
  /\ latest' = p
  /\ unread' = (IF unread < 2 THEN unread + 1 ELSE 2)
  /\ pc' = next_pc
  /\ UNCHANGED << front_dist, scan >>

\* ------------------------------------------------- remote variant: the loop
\* Mutant of WaitForService: the loop condition lost its `not`.
WaitForService_Inverted ==
  /\ variant = "remote"
  /\ pc = "wait_service"
  /\ IF ~svc_up
       THEN pc' = "spin_once" /\ data_received' = 0
       ELSE UNCHANGED << pc, data_received >>
  /\ UNCHANGED << variant, svc_up, pid_request, vel_x, vel_z, front_dist, msg,
                  future, localVars, published, histVars, traceVars >>

\* __init__: while not self.cli.wait_for_service(timeout_sec=1.0), then
\* self.data_received = 0 and the call of collision_avoidance().
WaitForService ==
  /\ variant = "remote"
  /\ pc = "wait_service"
  /\ IF svc_up
       THEN pc' = "spin_once" /\ data_received' = 0
       ELSE UNCHANGED << pc, data_received >>
  /\ UNCHANGED << variant, svc_up, pid_request, vel_x, vel_z, front_dist, msg,
                  future, localVars, published, histVars, traceVars >>

\* rclpy.spin_once(self): blocks until a message is there, runs its callback
\* and returns.  A sweep handled here is followed by a stale cycle.
SpinOnce ==
  /\ variant = "remote"
  /\ pc = "spin_once"
  /\ \/ /\ staleRun < MaxStale
        /\ \E s \in Sweeps : ScanCallback("check", s)
     \/ \E p \in Samples : ReceivePointCallback("check", p)
  /\ published' = 0
  /\ calls' = 0
  /\ UNCHANGED << variant, svc_up, vel_x, vel_z, msg, future, localVars,
                  prev_msg, observed, staleRun, base, runClear, pid_in >>

\* if self.data_received == 1: self.future = self.cli.call_async(self.pid_request)
CallAsync ==
  /\ variant = "remote"
  /\ pc = "check"
  /\ data_received = 1
  /\ future' = [status |-> "sent", request |-> pid_request, result |-> ZeroTwist]
  /\ pc' = "spin_future"
  /\ observed' = data_received
  /\ arrived' = FALSE
  /\ calls' = calls + 1
  /\ UNCHANGED << variant, svc_up, data_received, pid_request, vel_x, vel_z,
                  front_dist, msg, localVars, published, prev_msg, staleRun,
                  base, runClear, scan, latest, pid_in, unread >>

\* Mutant of Finish: self.data_received = 0 is missing.
Finish_KeepFlag(cx, cz) ==
  /\ vel_x' = cx
  /\ vel_z' = cz
  /\ msg' = Arbitrate(cx, cz, front_dist)
  /\ published' = published + 1
  /\ prev_msg' = msg
  /\ data_received' = data_received
  /\ unread' = unread
  /\ pc' = "spin_once"

\* Mutant of Finish: publish(msg) sits inside the no-obstacle branch.
Finish_PublishIfClear(cx, cz) ==
  /\ vel_x' = cx
  /\ vel_z' = cz
  /\ msg' = Arbitrate(cx, cz, front_dist)
  /\ published' = IF RGt(front_dist, dist_thresh_wf) THEN published + 1 ELSE published
  /\ prev_msg' = msg
  /\ data_received' = 0
  /\ unread' = 0
  /\ pc' = "spin_once"

\* Lines 162-182 with the candidate (cx, cz) in self.vel_x, self.vel_z: the
\* obstacle check, publish(msg), self.data_received = 0, back to the loop head.
Finish(cx, cz) ==
  /\ vel_x' = cx
  /\ vel_z' = cz
  /\ msg' = Arbitrate(cx, cz, front_dist)
  /\ published' = published + 1
  /\ prev_msg' = msg
  /\ data_received' = 0
  /\ unread' = 0
  /\ pc' = "spin_once"

\* Mutant of StaleCycle: the decay starts from the published msg.
StaleCycle_FromEmitted ==
  /\ variant = "remote"
  /\ pc = "check"
  /\ data_received # 1
  /\ staleRun < MaxStale
  /\ msg' = Arbitrate(Decay(msg.linear_x), Decay(msg.angular_z), front_dist)
  /\ vel_x' = Decay(msg.linear_x)
  /\ vel_z' = Decay(msg.angular_z)
  /\ published' = published + 1
  /\ prev_msg' = msg
  /\ data_received' = 0
  /\ unread' = 0
  /\ pc' = "spin_once"
  /\ observed' = data_received
  /\ arrived' = FALSE
  /\ staleRun' = staleRun + 1
  /\ runClear' = (runClear /\ RGt(front_dist, dist_thresh_wf))
  /\ UNCHANGED << variant, svc_up, pid_request, front_dist, future, localVars,
                  base, traceVars >>

\* Mutant of StaleCycle: call_async sits outside the if, so a stale cycle
\* sends a request as well.
StaleCycle_AlsoCalls ==
  /\ variant = "remote"
  /\ pc = "check"
  /\ data_received # 1
  /\ staleRun < MaxStale
  /\ Finish(Decay(vel_x), Decay(vel_z))
  /\ observed' = data_received
  /\ arrived' = FALSE
  /\ staleRun' = staleRun + 1
  /\ runClear' = (runClear /\ RGt(front_dist, dist_thresh_wf))
  /\ calls' = calls + 1
  /\ future' = [status |-> "sent", request |-> pid_request, result |-> ZeroTwist]
  /\ UNCHANGED << variant, svc_up, pid_request, front_dist, localVars,
                  base, scan, latest, pid_in >>

\* else: self.vel_x = 0.8 * self.vel_x; self.vel_z = 0.8 * self.vel_z
StaleCycle ==
  /\ variant = "remote"
  /\ pc = "check"
  /\ data_received # 1
  /\ staleRun < MaxStale
  /\ Finish(Decay(vel_x), Decay(vel_z))
  /\ observed' = data_received
  /\ arrived' = FALSE
  /\ staleRun' = staleRun + 1
  /\ runClear' = (runClear /\ RGt(front_dist, dist_thresh_wf))
  /\ UNCHANGED << variant, svc_up, pid_request, front_dist, future, localVars,
                  base, traceVars >>

\* rclpy.spin_until_future_complete(self, self.future): a sweep or a centroid
\* request that arrives before the response has its callback run.
FutureCallback ==
  /\ variant = "remote"
  /\ pc = "spin_future"
  /\ \/ \E s \in Sweeps : ScanCallback("spin_future", s)
     \/ \E p \in Samples : ReceivePointCallback("spin_future", p)
  /\ UNCHANGED << variant, svc_up, vel_x, vel_z, msg, future, localVars,
                  published, prev_msg, observed, staleRun, base, runClear,
                  calls, pid_in >>

\* The des_vel response v arrives and the future is done:
\* res = self.future.result(), the velocities are taken from it and the cycle
\* goes on to the obstacle check.
FutureDone ==
  /\ variant = "remote"
  /\ pc = "spin_future"
  /\ future.status = "sent"
  /\ \E v \in Velocities :
       /\ future' = [future EXCEPT !.status = "done", !.result = v]
       /\ Finish(v.linear_x, v.angular_z)
  /\ staleRun' = 0
  /\ base' = msg'
  /\ runClear' = RGt(front_dist, dist_thresh_wf)
  /\ UNCHANGED << variant, svc_up, pid_request, front_dist, localVars,
                  observed, arrived, traceVars >>

\* -------------------------------------------------------------- local variant
\* Mutant of ControlCb: the handler writes and publishes the command itself.
ControlCb_Publishes ==
  /\ variant = "local"
  /\ \E p \in Samples :
       /\ x' = p.x
       /\ y' = p.y
       /\ depth' = p.z
       /\ latest' = p
  /\ unread' = (IF unread < 2 THEN unread + 1 ELSE 2)
  /\ data_received' = 1
  /\ arrived' = TRUE
  /\ \E v \in Velocities : msg' = v
  /\ published' = published + 1
  /\ UNCHANGED << variant, remoteVars, tick, prev_msg, observed,
                  staleRun, base, runClear, scan, calls, pid_in >>

\* Mutant of ControlCb: a sample is stored only when none is pending.
ControlCb_FirstWins ==
  /\ variant = "local"
  /\ \E p \in Samples :
       /\ x' = (IF data_received = 1 THEN x ELSE p.x)
       /\ y' = (IF data_received = 1 THEN y ELSE p.y)
       /\ depth' = (IF data_received = 1 THEN depth ELSE p.z)
       /\ latest' = p
  /\ unread' = (IF unread < 2 THEN unread + 1 ELSE 2)
  /\ data_received' = 1
  /\ arrived' = TRUE
  /\ UNCHANGED << variant, remoteVars, msg, tick, published, prev_msg, observed,
                  staleRun, base, runClear, scan, calls, pid_in >>

\* Mutant of ControlCb: self.y = data.y is missing.
ControlCb_DropsY ==
  /\ variant = "local"
  /\ \E p \in Samples :
       /\ x' = p.x
       /\ y' = y
       /\ depth' = p.z
       /\ latest' = p
  /\ unread' = (IF unread < 2 THEN unread + 1 ELSE 2)
  /\ data_received' = 1
  /\ arrived' = TRUE
  /\ UNCHANGED << variant, remoteVars, msg, tick, published, prev_msg, observed,
                  staleRun, base, runClear, scan, calls, pid_in >>

\* control_cb(data) run by the executor on the Point p.
ControlCb ==
  /\ variant = "local"
  /\ \E p \in Samples :
       /\ x' = p.x
       /\ y' = p.y
       /\ depth' = p.z
       /\ latest' = p
  /\ unread' = (IF unread < 2 THEN unread + 1 ELSE 2)
  /\ data_received' = 1
  /\ arrived' = TRUE
  /\ UNCHANGED << variant, remoteVars, msg, tick, published, prev_msg, observed,
                  staleRun, base, runClear, scan, calls, pid_in >>

\* publisher_cmd(), the 0.01 s timer callback.  The PID outputs are whatever
\* simple_pid returns for self.depth and self.x.
PublisherCmd ==
  /\ variant = "local"
  /\ IF data_received = 1
       THEN /\ \E v \in Velocities : msg' = v
            /\ pid_in' = [x |-> x, y |-> y, z |-> depth]
            /\ data_received' = 0
            /\ unread' = 0
            /\ staleRun' = 0
            /\ base' = msg'
       ELSE /\ staleRun < MaxStale
            /\ msg' = [linear_x  |-> Decay(msg.linear_x),
                       angular_z |-> Decay(msg.angular_z)]
            /\ staleRun' = staleRun + 1
            /\ UNCHANGED << data_received, base, pid_in, unread >>
  /\ published' = 1
  /\ tick' = 1 - tick
  /\ prev_msg' = msg
  /\ observed' = data_received
  /\ arrived' = FALSE
  /\ UNCHANGED << variant, remoteVars, x, y, depth, runClear, scan, calls,
                  latest >>

\* ---------------------------------------------------------- specifications
Next ==
  \/ ServiceChanges
  \/ WaitForService
  \/ SpinOnce
  \/ CallAsync
  \/ StaleCycle
  \/ FutureCallback
  \/ FutureDone
  \/ ControlCb
  \/ PublisherCmd

Spec == Init /\ [][Next]_vars

\* The control thread takes a step it can take on its own, and the timer of
\* the local node keeps firing.  A step that needs a message from outside
\* (SpinOnce, FutureCallback, FutureDone, ControlCb) is under no obligation:
\* the message may never come.
FairSpec ==
  /\ Spec
  /\ WF_vars(WaitForService)
  /\ WF_vars(CallAsync)
  /\ WF_vars(StaleCycle)
  /\ WF_vars(PublisherCmd)

\* ------------------------------------------------------------ vocabulary
Remote == variant = "remote"

\* clearance above / not above the threshold
Clear(fd) == RGt(fd, dist_thresh_wf)

\* a = 0.8 * b, by cross-multiplication
IsFourFifths(a, b) == a.n * 5 * b.d = 4 * b.n * a.d

\* This step of the remote loop publishes a command.
RemoteEmits == Remote /\ published' = published + 1

\* This step completes an iteration of the loop / a timer callback.
IterationEnds ==
  \/ Remote /\ pc \in {"check", "spin_future"} /\ pc' = "spin_once"
  \/ variant = "local" /\ tick' # tick

RECURSIVE Pow(_, _)
Pow(b, k) == IF k = 0 THEN 1 ELSE b * Pow(b, k - 1)

\* v * 0.8^k
Scaled(v, k) == Rat(v.n * Pow(4, k), v.d * Pow(5, k))

\* ------------------------------------------------------------------ claims
\* C1: in the remote loop every published command has forward velocity
\* exactly 0 when the frontal clearance held at the moment of emission is
\* <= 1.1, whatever the candidate.
C1_ForwardZeroWhenBlocked ==
  [][ (RemoteEmits /\ ~Clear(front_dist')) => msg'.linear_x = Zero ]_vars

\* A fresh cycle whose candidate moves forward was stopped by a sweep handled
\* while the cycle waited for des_vel (the previous emission still moved).
C1_Witness ==
  /\ Remote /\ pc = "spin_once" /\ published = 1 /\ observed = 1
  /\ prev_msg.linear_x # Zero
  /\ ~Clear(front_dist)
  /\ vel_x # Zero
  /\ msg.linear_x = Zero

\* C2: in the remote loop, when the clearance is above the threshold the
\* published command is the cycle's candidate unchanged, the candidate being
\* the des_vel response in a fresh cycle and the decayed value in a stale one.
C2_PassThroughWhenClear ==
  [][ (RemoteEmits /\ Clear(front_dist')) =>
        /\ msg'.linear_x = vel_x'
        /\ msg'.angular_z = vel_z'
        /\ IF pc = "spin_future"
             THEN /\ vel_x' = future'.result.linear_x
                  /\ vel_z' = future'.result.angular_z
             ELSE /\ IsFourFifths(vel_x', vel_x)
                  /\ IsFourFifths(vel_z', vel_z) ]_vars

\* Scenario A: clearance 5.0, fresh target of depth 2, the response passes through.
C2_Witness ==
  /\ Remote /\ pc = "spin_once" /\ published = 1 /\ observed = 1
  /\ front_dist = max_distance
  /\ future.request.z = 2
  /\ future.status = "done"
  /\ msg = future.result
  /\ msg.linear_x # Zero

\* C3: in the remote loop, when the clearance is <= the threshold the
\* published angular velocity is the candidate's; only forward is overridden.
C3_AngularKeptWhenBlocked ==
  [][ (RemoteEmits /\ ~Clear(front_dist')) =>
        /\ msg'.angular_z = vel_z'
        /\ msg' = [linear_x |-> Zero, angular_z |-> vel_z'] ]_vars

\* Scenario B: clearance 0.5, candidate {0.6, 0.3}, published {0, 0.3}.
C3_Witness ==
  /\ Remote /\ pc = "spin_once" /\ published = 1
  /\ front_dist = Rat(5, 10)
  /\ vel_x = Rat(6, 10) /\ vel_z = Rat(3, 10)
  /\ msg = [linear_x |-> Zero, angular_z |-> Rat(3, 10)]

\* Scenario C: the forwards emitted by stale cycles 1..5 after {1.0, 0.0}.
ScenarioC == << Rat(8, 10), Rat(64, 100), Rat(512, 1000), Rat(4096, 10000),
                Rat(32768, 100000) >>

C6_FreshnessExclusive ==
  ((variant = "local" \/ pc = "check") /\ observed = 1 /\ ~arrived)
     => data_received = 0

\* The remote loop is about to read the flag after a fresh cycle and a sweep.
C6_Witness ==
  Remote /\ pc = "check" /\ observed = 1 /\ ~arrived /\ data_received = 0

\* C7 as stated: when a cycle ends, an arrival handled after the cycle read
\* the flag is still flagged for the next cycle.
C7_ArrivalNotErased ==
  [][ (Remote /\ pc = "spin_future" /\ arrived /\ pc' = "spin_once")
        => data_received' = 1 ]_vars

\* C8: every completed iteration of either loop has published exactly one
\* command, and no iteration publishes more than one.
C8_OneCommandPerCycle ==
  [][ /\ IterationEnds => published' = 1
      /\ published' <= 1 ]_vars

\* A stale, obstructed iteration of the remote loop has completed.
C8_Witness ==
  /\ Remote /\ pc = "spin_once" /\ published = 1 /\ observed = 0
  /\ ~Clear(front_dist)
  /\ vel_x # Zero

\* C9 as stated: once the remote loop is running, commands keep being
\* published (unless the loop has died of a handler's exception, or a des_vel
\* call is never answered), whether or not any sweep or target request
\* arrives again.
C9_AlwaysEventuallyEmits ==
  (Remote /\ <>(pc = "spin_once")) =>
     \/ []<><<RemoteEmits>>_vars
     \/ <>(pc = "crashed")
     \/ <>[](pc = "spin_future")

\* C10: the remote loop leaves WAITING_SERVICE only on an attempt made while
\* the service is available, nothing is published before, and once the
\* service stays available the loop does start.
C10_StartupBarrier ==
  /\ [](pc = "wait_service" => (published = 0 /\ msg = ZeroTwist /\ observed = -1))
  /\ [][ (pc = "wait_service" /\ pc' # "wait_service") => svc_up ]_vars
  /\ (<>[]svc_up => <>(Remote /\ pc # "wait_service"))

\* The barrier was passed with the service available, and the loop has published.
C10_Witness ==
  Remote /\ pc = "spin_once" /\ published = 1 /\ svc_up

\* ------------------------------------------------- claims, second part
\* The sweep has no range at an index in 260..399.
EmptyWindow(s) == s.len <= WindowLo

\* The range at index i of the sweep s (0 <= i < s.len).
At(s, i) ==
  IF \E m \in s.marks : m[1] = i
    THEN (CHOOSE m \in s.marks : m[1] = i)[2]
    ELSE s.fill

\* The indices 260..399 that the sweep s has.
Front(s) == { i \in WindowLo .. (WindowHi - 1) : i < s.len }

\* the three fields of the local node as one sample
Stored == [x |-> x, y |-> y, z |-> depth]

\* |a| <= b * 0.8^k, for b >= 0
Within(a, b, k) == Abs(a.n) * b.d * Pow(5, k) <= b.n * a.d * Pow(4, k)

\* the largest magnitude a velocity computation answers
VMax == Rat(1, 1)

\* C11 as stated: a fresh cycle whose des_vel call is not answered still
\* completes with one command published, and the loop goes on.
C11_CallFaultFallsBack ==
  (Remote /\ pc = "spin_future") ~>
     ((pc = "spin_once" /\ published = 1) \/ pc = "crashed")

\* C12 as stated: a sweep with an empty forward window leaves the clearance
\* as it was, raises nothing, and the loop keeps running.
C12_FailsClosed ==
  [][ (Remote /\ scan' # scan /\ EmptyWindow(scan'))
        => (front_dist' = front_dist /\ pc' # "crashed") ]_vars

\* C13: no step in which an arrival handler writes (the clearance, the
\* pending sample, the flag) also publishes a command, sends a des_vel
\* request, takes velocities or evaluates the PIDs.
C13_HandlersDoNotEmit ==
  [][ ~ ( /\ \/ front_dist' # front_dist
             \/ scan' # scan
             \/ pid_request' # pid_request
             \/ latest' # latest
             \/ Stored' # Stored
             \/ unread' > unread
             \/ (data_received = 0 /\ data_received' = 1)
          /\ \/ msg' # msg
             \/ published' > published
             \/ tick' # tick
             \/ future' # future
             \/ calls' > calls
             \/ vel_x' # vel_x
             \/ vel_z' # vel_z
             \/ pid_in' # pid_in ) ]_vars

\* The handler has stored a target, and the timer callback has since
\* evaluated the PIDs on it and published.
C13_Witness ==
  /\ variant = "local" /\ latest \in Samples /\ Stored = latest
  /\ pid_in = latest /\ published = 1 /\ msg # ZeroTwist

\* C14: the clearance starts at 5.0 > 1.1, so every command published before
\* the first sweep is handled is the candidate unchanged.
C14_StartsNonBlocking ==
  /\ scan = NoSweep => (front_dist = Rat(5, 1) /\ Clear(front_dist))
  /\ (Remote /\ scan = NoSweep /\ published = 1 /\ pc = "spin_once")
        => (msg.linear_x = vel_x /\ msg.angular_z = vel_z)

\* A fresh cycle before any sweep has published a forward velocity.
C14_Witness ==
  /\ Remote /\ scan = NoSweep /\ published = 1 /\ pc = "spin_once"
  /\ msg.linear_x # Zero

\* C15: an iteration of the remote loop has sent one des_vel request if it
\* read the flag true and none otherwise; a stale cycle leaves self.future
\* alone and takes the decayed value.
C15_OneCallWhenFresh ==
  [][ /\ (Remote /\ IterationEnds) =>
            calls' = (IF observed' = 1 THEN 1 ELSE 0)
      /\ calls' <= 1
      /\ (Remote /\ pc = "check" /\ data_received # 1) =>
            (future' = future /\ calls' = calls) ]_vars

\* A fresh iteration (one call) and then a stale one (no call) have completed.
C15_Witness ==
  /\ Remote /\ pc = "spin_once" /\ published = 1 /\ observed = 0 /\ calls = 0
  /\ future.status = "done"

\* C16: the sample a fresh cycle passes to the velocity computation is the
\* one the most recent arrival handler stored, however many arrivals there
\* were since the flag was last cleared.
C16_LatestSampleWins ==
  [][ /\ (Remote /\ calls' = calls + 1) => future'.request = latest
      /\ (variant = "local" /\ tick' # tick /\ data_received = 1)
            => pid_in' = latest
      /\ (variant = "local" /\ data_received' = 1) => Stored' = latest' ]_vars

\* Two arrivals since the last consume: the stored sample is the later one.
C16_Witness ==
  /\ variant = "local" /\ unread = 2 /\ data_received = 1
  /\ Stored = latest
  /\ pid_in \in Samples /\ pid_in # latest

\* C17: the x, y and depth a fresh cycle uses all come from one arrival.
C17_NoTornSample ==
  /\ pid_in # NoSample => pid_in \in Samples
  /\ future.status # "none" => future.request \in Samples
  /\ data_received = 1 => (IF Remote THEN pid_request ELSE Stored) \in Samples

\* The local node used one arrival whole, and a different one has come since.
C17_Witness ==
  /\ variant = "local" /\ pid_in \in Samples /\ observed = 1
  /\ data_received = 1 /\ Stored \in Samples /\ Stored # pid_in

\* C18: after a sweep with a non-empty forward window was handled, the
\* clearance is the least of its ranges at the indices 260..399.
C18_WindowMinimum ==
  (scan # NoSweep /\ ~EmptyWindow(scan)) =>
     /\ \E i \in Front(scan) : front_dist = At(scan, i)
     /\ \A i \in Front(scan) : ~RGt(front_dist, At(scan, i))

\* The sweep with 1.1 at index 399 and 0.2 at index 400 was handled.
C18_Witness ==
  /\ Remote /\ scan = SweepEdge /\ front_dist = Rat(11, 10)

\* C19: with no target arrival, the velocities emitted after k stale cycles
\* are within 0.8^k of the largest velocity, in both loops and whatever the
\* clearance was; they are below 0.5 from the fourth stale cycle on.
C19_ConvergesToRest ==
  /\ Within(msg.linear_x, VMax, staleRun)
  /\ Within(msg.angular_z, VMax, staleRun)
  /\ staleRun >= 4 =>
        /\ RGt(Rat(1, 2), msg.linear_x) /\ RGt(msg.linear_x, Rat(-1, 2))
        /\ RGt(Rat(1, 2), msg.angular_z) /\ RGt(msg.angular_z, Rat(-1, 2))

\* Five stale cycles after {1.0, 0.0}: forward 0.32768.
C19_Witness ==
  /\ staleRun = 5 /\ msg.linear_x = Rat(32768, 100000)
  /\ variant = "local"

====
